---- MODULE Spec2Model ----
(***************************************************************************)
(* MMA8451 3-axis accelerometer driver (micropython_mma8451/mma8451.py).   *)
(*                                                                         *)
(* The device is a set of byte registers behind a bus transport.  Every    *)
(* driver method is a sequence of statements; every statement that touches *)
(* the device issues one or two bus transactions.  One step of the model   *)
(* is one bus transaction (or one assignment to the handle's cached        *)
(* range), so that the order of transactions and every state between two   *)
(* of them is visible.                                                     *)
(***************************************************************************)
EXTENDS Integers, Sequences, FiniteSets, TLC

VARIABLES
    regs,     \* the device's registers: address -> byte
    cached,   \* self._scale_range_cached (NoCache until __init__ assigns it)
    pc,       \* "new" | "run" | "write" | "idle" | "dead"
    stmts,    \* statements of the running method still to execute
    call,     \* the running (or last) method and its argument
    latch,    \* the byte a bit-field write read and is about to write back
    bus,      \* bus transactions issued by the running (or last) method
    result,   \* outcome of the last finished method
    pre,      \* registers and cache as they were when the method was called
    probe,    \* inputs and output of a pure function under test
    tasks,    \* tasks sharing one handle: task -> its method's context
    lock      \* the callers' lock around the handle: the set of its holders

vars == <<regs, cached, pc, stmts, call, latch, bus, result, pre, probe, tasks, lock>>

---------------------------------------------------------------------------
(* Bounds of the model.                                                    *)

\* setter arguments are drawn from -1 .. MaxValue
MaxValue == 8
\* values handed to write_bits in isolation are drawn from 0 .. MaxBitsValue
MaxBitsValue == 7

---------------------------------------------------------------------------
(* Constants of the driver.                                                *)

_REG_WHOAMI == 13
_DATA == 1
_XYZ_DATA_CFG == 14
_CTRL_REG1 == 42
_HP_FILTER_CUTOFF == 47

\* _GRAVITY = 9.80665, kept exact as GravityNum / GravityDen
GravityNum == 980665
GravityDen == 100000

\* the identity __init__ expects
DeviceId == 26

STANDBY_MODE == 0
ACTIVE_MODE == 1
operation_mode_values == <<STANDBY_MODE, ACTIVE_MODE>>

RANGE_2G == 0
RANGE_4G == 1
RANGE_8G == 2
\* a validation tuple that lets the fourth code of the two-bit field through
scale_range_values_upto3 == <<RANGE_2G, RANGE_4G, RANGE_8G, 3>>
scale_range_values == <<RANGE_2G, RANGE_4G, RANGE_8G>>
scale_conversion == (RANGE_2G :> 4096) @@ (RANGE_4G :> 2048) @@ (RANGE_8G :> 1024)

DATARATE_800HZ == 0
DATARATE_400HZ == 1
DATARATE_200HZ == 2
DATARATE_100HZ == 3
DATARATE_50HZ == 4
DATARATE_12_5HZ == 5
DATARATE_6_25HZ == 6
DATARATE_1_56HZ == 7
data_rate_values ==
    <<DATARATE_800HZ, DATARATE_400HZ, DATARATE_200HZ, DATARATE_100HZ,
      DATARATE_50HZ, DATARATE_12_5HZ, DATARATE_6_25HZ, DATARATE_1_56HZ>>

HPF_DISABLED == 0
HPF_ENABLED == 1
high_pass_filter_values == <<HPF_DISABLED, HPF_ENABLED>>

CUTOFF_16HZ == 0
CUTOFF_8HZ == 1
CUTOFF_4HZ == 2
CUTOFF_2HZ == 3
high_pass_filter_cutoff_values == <<CUTOFF_16HZ, CUTOFF_8HZ, CUTOFF_4HZ, CUTOFF_2HZ>>

\* the label tuples local to each getter
operation_mode_labels == <<"STANDBY_MODE", "ACTIVE_MODE">>
scale_range_labels == <<"RANGE_2G", "RANGE_4G", "RANGE_8G">>
data_rate_labels ==
    <<"DATARATE_800HZ", "DATARATE_400HZ", "DATARATE_200HZ", "DATARATE_100HZ",
      "DATARATE_50HZ", "DATARATE_12_5HZ", "DATARATE_6_25HZ", "DATARATE_1_56HZ">>
high_pass_filter_labels == <<"HPF_DISABLED", "HPF_ENABLED">>
high_pass_filter_cutoff_labels == <<"CUTOFF_16HZ", "CUTOFF_8HZ", "CUTOFF_4HZ", "CUTOFF_2HZ">>

\* a range field declared one bit wide
_scale_range_1bit == [num_bits |-> 1, register |-> _XYZ_DATA_CFG, start_bit |-> 0]

\* a filter-enable field declared two bits wide
_high_pass_filter_2bit == [num_bits |-> 2, register |-> _XYZ_DATA_CFG, start_bit |-> 4]

\* CBits(num_bits, register_address, start_bit) descriptors of the class
_operation_mode == [num_bits |-> 1, register |-> _CTRL_REG1, start_bit |-> 0]
_scale_range == [num_bits |-> 2, register |-> _XYZ_DATA_CFG, start_bit |-> 0]
_data_rate == [num_bits |-> 2, register |-> _CTRL_REG1, start_bit |-> 4]
_high_pass_filter == [num_bits |-> 1, register |-> _XYZ_DATA_CFG, start_bit |-> 4]
_high_pass_filter_cutoff == [num_bits |-> 2, register |-> _HP_FILTER_CUTOFF, start_bit |-> 0]

\* value of self._scale_range_cached before __init__ has assigned it
NoCache == -1

---------------------------------------------------------------------------
(* Python helpers.                                                         *)

\* value in values, for a tuple
InTuple(value, values) == \E i \in DOMAIN values : values[i] = value

\* values[code] on a tuple (0-based); "IndexError" when code is past the end
Lookup(values, code) ==
    IF code + 1 \in DOMAIN values THEN values[code + 1] ELSE "IndexError"

---------------------------------------------------------------------------
(* Register access layer: bytes, masks, bit-fields, structured values.     *)

Bytes == 0 .. 255

RECURSIVE BitwiseAnd(_, _)
BitwiseAnd(a, b) ==
    IF a = 0 \/ b = 0 THEN 0
    ELSE (a % 2) * (b % 2) + 2 * BitwiseAnd(a \div 2, b \div 2)

RECURSIVE BitwiseOr(_, _)
BitwiseOr(a, b) ==
    IF a = 0 THEN b
    ELSE IF b = 0 THEN a
    ELSE (IF a % 2 = 1 \/ b % 2 = 1 THEN 1 ELSE 0) + 2 * BitwiseOr(a \div 2, b \div 2)

\* ~m within one byte
Invert8(m) == 255 - (m % 256)

\* ((1 << width) - 1) << offset
bit_mask(f) == ((2 ^ f.num_bits) - 1) * (2 ^ f.start_bit)

\* read_bits: shift right by offset, mask to width
read_bits(f, byte) == (byte \div (2 ^ f.start_bit)) % (2 ^ f.num_bits)

\* a write_bits that ORs the value in without masking it to the field
write_bits_unmasked(f, byte, value) ==
    BitwiseOr(BitwiseAnd(byte, Invert8(bit_mask(f))), value * (2 ^ f.start_bit)) % 256

\* write_bits: clear the bits of the field's mask, OR in the masked value
write_bits(f, byte, value) ==
    BitwiseOr(BitwiseAnd(byte, Invert8(bit_mask(f))),
              BitwiseAnd(value, (2 ^ f.num_bits) - 1) * (2 ^ f.start_bit))

\* one big-endian signed 16-bit word ("h" of ">hhh")
Int16BE(hi, lo) ==
    LET u == hi * 256 + lo IN IF u >= 32768 THEN u - 65536 ELSE u

\* read_struct with format ">hhh" on six bytes
UnpackHHH(b) == <<Int16BE(b[1], b[2]), Int16BE(b[3], b[4]), Int16BE(b[5], b[6])>>

---------------------------------------------------------------------------
(* Outcomes and bus transactions.                                          *)

NoResult == [kind |-> "none", label |-> "", accel |-> <<>>]
Returned == [kind |-> "ok", label |-> "", accel |-> <<>>]
Raised(e) == [kind |-> e, label |-> "", accel |-> <<>>]
ReturnedLabel(s) == [kind |-> "label", label |-> s, accel |-> <<>>]
ReturnedAccel(a) == [kind |-> "accel", label |-> "", accel |-> a]

BusRead(register, data) == [op |-> "read", register |-> register, data |-> data]
BusWrite(register, data) == [op |-> "write", register |-> register, data |-> data]

Snapshot == [regs |-> regs, cached |-> cached]

\* statements of the methods
SetField(f, value) == [k |-> "set", f |-> f, value |-> value, labels |-> <<>>]
GetField(f, labels) == [k |-> "get", f |-> f, value |-> 0, labels |-> labels]
CacheValue(value) == [k |-> "cache", f |-> _scale_range, value |-> value, labels |-> <<>>]
CacheField == [k |-> "cache_read", f |-> _scale_range, value |-> 0, labels |-> <<>>]
CheckId == [k |-> "check_id", f |-> _scale_range, value |-> 0, labels |-> <<>>]
ReadRaw == [k |-> "accel", f |-> _scale_range, value |-> 0, labels |-> <<>>]

---------------------------------------------------------------------------
(* The methods, as the statements they execute after validation.           *)

\* a constructor that caches the range before it forces active mode
init_body_cache_first == <<CheckId, CacheField, SetField(_operation_mode, ACTIVE_MODE)>>

\* a constructor that forces active mode before it has checked the identity
init_body_mode_first == <<SetField(_operation_mode, ACTIVE_MODE), CheckId, CacheField>>

init_body == <<CheckId, SetField(_operation_mode, ACTIVE_MODE), CacheField>>

\* a mode setter that goes through standby like the bracketed setters
operation_mode_setter_via_standby(value) ==
    <<SetField(_operation_mode, STANDBY_MODE), SetField(_operation_mode, value)>>

operation_mode_setter(value) == <<SetField(_operation_mode, value)>>

\* a range setter that forgets the cached range
scale_range_setter_no_cache(value) ==
    <<SetField(_operation_mode, STANDBY_MODE),
      SetField(_scale_range, value),
      SetField(_operation_mode, ACTIVE_MODE)>>

\* a range setter that updates the cache before the register field
scale_range_setter_cache_first(value) ==
    <<SetField(_operation_mode, STANDBY_MODE),
      CacheValue(value),
      SetField(_scale_range, value),
      SetField(_operation_mode, ACTIVE_MODE)>>

scale_range_setter(value) ==
    <<SetField(_operation_mode, STANDBY_MODE),
      SetField(_scale_range, value),
      CacheValue(value),
      SetField(_operation_mode, ACTIVE_MODE)>>

\* a rate setter that leaves the device in standby
data_rate_setter_no_active(value) ==
    <<SetField(_operation_mode, STANDBY_MODE),
      SetField(_data_rate, value)>>

data_rate_setter(value) ==
    <<SetField(_operation_mode, STANDBY_MODE),
      SetField(_data_rate, value),
      SetField(_operation_mode, ACTIVE_MODE)>>

\* a filter setter that skips the transition to standby
high_pass_filter_setter_no_standby(value) ==
    <<SetField(_high_pass_filter, value),
      SetField(_operation_mode, ACTIVE_MODE)>>

high_pass_filter_setter(value) ==
    <<SetField(_operation_mode, STANDBY_MODE),
      SetField(_high_pass_filter, value),
      SetField(_operation_mode, ACTIVE_MODE)>>

\* a cutoff setter that never returns the device to active mode
high_pass_filter_cutoff_setter_no_active(value) ==
    <<SetField(_operation_mode, STANDBY_MODE),
      SetField(_high_pass_filter_cutoff, value)>>

high_pass_filter_cutoff_setter(value) ==
    <<SetField(_operation_mode, STANDBY_MODE),
      SetField(_high_pass_filter_cutoff, value),
      SetField(_operation_mode, ACTIVE_MODE)>>

operation_mode_getter == <<GetField(_operation_mode, operation_mode_labels)>>
scale_range_getter == <<GetField(_scale_range, scale_range_labels)>>
data_rate_getter == <<GetField(_data_rate, data_rate_labels)>>
high_pass_filter_getter == <<GetField(_high_pass_filter, high_pass_filter_labels)>>
high_pass_filter_cutoff_getter ==
    <<GetField(_high_pass_filter_cutoff, high_pass_filter_cutoff_labels)>>
\* an acceleration read that first refreshes the cached range from the device
acceleration_getter_fresh_range == <<CacheField, ReadRaw>>

acceleration_getter == <<ReadRaw>>

\* what a getter returns when the register holds `byte`: values[self._field]
getter_outcome(s, byte) ==
    LET lab == Lookup(s.labels, read_bits(s.f, byte))
    IN  IF lab = "IndexError" THEN Raised("IndexError") ELSE ReturnedLabel(lab)

\* a shift that rounds toward zero, as a division would in C
ShiftRight2_toward_zero(x) == IF x >= 0 THEN x \div 4 ELSE -((-x) \div 4)

\* x >>= 2 on a Python int: arithmetic shift, rounds toward minus infinity
ShiftRight2(x) == x \div 4

\* x / divisor * _GRAVITY, kept as its exact factors: the value is
\* (count / divisor) * (gravity[1] / gravity[2])
Scaled(count, divisor) ==
    [count |-> count, divisor |-> divisor, gravity |-> <<GravityNum, GravityDen>>]

\* the key of scale_conversion the conversion uses: the handle's cached range,
\* whatever byte the range register holds at that moment
divisor_key(cache, cfg_byte) == cache

\* the acceleration property, given the six bytes the data register returned
acceleration(raw, key) ==
    LET w == UnpackHHH(raw)
        x == ShiftRight2(w[1])
        y == ShiftRight2(w[2])
        z == ShiftRight2(w[3])
    IN  IF key \notin DOMAIN scale_conversion
        THEN Raised("KeyError")
        ELSE LET divisor == scale_conversion[key]
             IN  ReturnedAccel(<<Scaled(x, divisor), Scaled(y, divisor), Scaled(z, divisor)>>)

---------------------------------------------------------------------------
(* Inputs.                                                                 *)

Values == -1 .. MaxValue

\* contents the three configuration registers may hold when the driver first
\* meets the device (all three hold the same byte)
InitBytes == {0, 90, 165, 255}
WhoAmIBytes == {DeviceId, 0, 42, 255}

\* six-byte samples of the data register
RawSamples ==
    { <<16, 0, 8, 0, 252, 0>>,
      <<0, 0, 255, 255, 127, 255>>,
      <<128, 0, 0, 3, 255, 253>> }

---------------------------------------------------------------------------
(* Calls: validation, then the method's statements.                        *)

Init ==
    /\ \E id \in WhoAmIBytes, b \in InitBytes :
          regs = (_REG_WHOAMI :> id) @@ (_XYZ_DATA_CFG :> b)
                 @@ (_CTRL_REG1 :> b) @@ (_HP_FILTER_CUTOFF :> b)
    /\ cached = NoCache
    /\ pc = "new"
    /\ stmts = <<>>
    /\ call = [op |-> "none", value |-> 0]
    /\ latch = 0
    /\ bus = <<>>
    /\ result = NoResult
    /\ pre = [regs |-> regs, cached |-> cached]
    /\ probe = <<>>
    /\ tasks = <<>>
    /\ lock = {}

\* enter a method from state `from` with the statements `body`
Enter(from, op, value, body) ==
    /\ pc = from
    /\ pc' = "run"
    /\ stmts' = body
    /\ call' = [op |-> op, value |-> value]
    /\ bus' = <<>>
    /\ result' = NoResult
    /\ pre' = Snapshot
    /\ UNCHANGED <<regs, cached, latch, probe, tasks, lock>>

\* raise ValueError before any statement
Reject(op, value) ==
    /\ pc = "idle"
    /\ pc' = "idle"
    /\ stmts' = <<>>
    /\ call' = [op |-> op, value |-> value]
    /\ bus' = <<>>
    /\ result' = Raised("ValueError")
    /\ pre' = Snapshot
    /\ UNCHANGED <<regs, cached, latch, probe, tasks, lock>>

Construct == Enter("new", "__init__", 0, init_body)

SetOperationMode ==
    \E value \in Values :
        \/ /\ ~InTuple(value, operation_mode_values)
           /\ Reject("operation_mode=", value)
        \/ /\ InTuple(value, operation_mode_values)
           /\ Enter("idle", "operation_mode=", value, operation_mode_setter(value))

SetScaleRange ==
    \E value \in Values :
        \/ /\ ~InTuple(value, scale_range_values)
           /\ Reject("scale_range=", value)
        \/ /\ InTuple(value, scale_range_values)
           /\ Enter("idle", "scale_range=", value, scale_range_setter(value))

SetDataRate ==
    \E value \in Values :
        \/ /\ ~InTuple(value, data_rate_values)
           /\ Reject("data_rate=", value)
        \/ /\ InTuple(value, data_rate_values)
           /\ Enter("idle", "data_rate=", value, data_rate_setter(value))

SetHighPassFilter ==
    \E value \in Values :
        \/ /\ ~InTuple(value, high_pass_filter_values)
           /\ Reject("high_pass_filter=", value)
        \/ /\ InTuple(value, high_pass_filter_values)
           /\ Enter("idle", "high_pass_filter=", value, high_pass_filter_setter(value))

SetHighPassFilterCutoff ==
    \E value \in Values :
        \/ /\ ~InTuple(value, high_pass_filter_cutoff_values)
           /\ Reject("high_pass_filter_cutoff=", value)
        \/ /\ InTuple(value, high_pass_filter_cutoff_values)
           /\ Enter("idle", "high_pass_filter_cutoff=", value,
                    high_pass_filter_cutoff_setter(value))

GetOperationMode ==
    Enter("idle", "operation_mode", 0, operation_mode_getter)

GetScaleRange ==
    Enter("idle", "scale_range", 0, scale_range_getter)

GetDataRate ==
    Enter("idle", "data_rate", 0, data_rate_getter)

GetHighPassFilter ==
    Enter("idle", "high_pass_filter", 0, high_pass_filter_getter)

GetHighPassFilterCutoff ==
    Enter("idle", "high_pass_filter_cutoff", 0, high_pass_filter_cutoff_getter)

GetAcceleration == Enter("idle", "acceleration", 0, acceleration_getter)

---------------------------------------------------------------------------
(* Statements: one step per bus transaction or cache assignment.           *)

Running(k) == pc = "run" /\ stmts # <<>> /\ Head(stmts).k = k

\* go on with the statements left; the method returns `res` when none is
Finish(rest, res) ==
    /\ stmts' = rest
    /\ pc' = IF rest = <<>> THEN "idle" ELSE "run"
    /\ result' = IF rest = <<>> THEN res ELSE result

\* if self._device_id != 0x1A: raise RuntimeError
CheckDeviceId ==
    /\ Running("check_id")
    /\ LET id == regs[_REG_WHOAMI]
       IN  /\ bus' = Append(bus, BusRead(_REG_WHOAMI, <<id>>))
           /\ \/ /\ id # DeviceId
                 /\ pc' = "dead"
                 /\ stmts' = <<>>
                 /\ result' = Raised("RuntimeError")
              \/ /\ id = DeviceId
                 /\ Finish(Tail(stmts), Returned)
    /\ UNCHANGED <<regs, cached, call, latch, pre, probe, tasks, lock>>

\* write_bits, first transaction: read the register's byte
WriteBitsRead ==
    /\ Running("set")
    /\ LET f == Head(stmts).f
       IN  /\ latch' = regs[f.register]
           /\ bus' = Append(bus, BusRead(f.register, <<regs[f.register]>>))
    /\ pc' = "write"
    /\ UNCHANGED <<regs, cached, stmts, call, result, pre, probe, tasks, lock>>

\* write_bits, second transaction: write the byte with the field replaced
WriteBitsWrite ==
    /\ pc = "write"
    /\ LET s == Head(stmts)
           byte == write_bits(s.f, latch, s.value)
       IN  /\ regs' = [regs EXCEPT ![s.f.register] = byte]
           /\ bus' = Append(bus, BusWrite(s.f.register, <<byte>>))
    /\ latch' = 0
    /\ Finish(Tail(stmts), Returned)
    /\ UNCHANGED <<cached, call, pre, probe, tasks, lock>>

\* self._scale_range_cached = value
AssignCache ==
    /\ Running("cache")
    /\ cached' = Head(stmts).value
    /\ Finish(Tail(stmts), Returned)
    /\ UNCHANGED <<regs, call, latch, bus, pre, probe, tasks, lock>>

\* self._scale_range_cached = self._scale_range
AssignCacheFromField ==
    /\ Running("cache_read")
    /\ LET f == Head(stmts).f
       IN  /\ bus' = Append(bus, BusRead(f.register, <<regs[f.register]>>))
           /\ cached' = read_bits(f, regs[f.register])
    /\ Finish(Tail(stmts), Returned)
    /\ UNCHANGED <<regs, call, latch, pre, probe, tasks, lock>>

\* return values[self._field]
ReadBitsLabel ==
    /\ Running("get")
    /\ LET s == Head(stmts)
           byte == regs[s.f.register]
       IN  /\ bus' = Append(bus, BusRead(s.f.register, <<byte>>))
           /\ Finish(Tail(stmts), getter_outcome(s, byte))
    /\ UNCHANGED <<regs, cached, call, latch, pre, probe, tasks, lock>>

\* x, y, z = self._raw_data and the conversion
ReadRawData ==
    /\ Running("accel")
    /\ \E raw \in RawSamples :
          /\ bus' = Append(bus, BusRead(_DATA, raw))
          /\ Finish(Tail(stmts),
                    acceleration(raw, divisor_key(cached, regs[_XYZ_DATA_CFG])))
    /\ UNCHANGED <<regs, cached, call, latch, pre, probe, tasks, lock>>

Next ==
    \/ Construct
    \/ SetOperationMode
    \/ SetScaleRange
    \/ SetDataRate
    \/ SetHighPassFilter
    \/ SetHighPassFilterCutoff
    \/ GetOperationMode
    \/ GetScaleRange
    \/ GetDataRate
    \/ GetHighPassFilter
    \/ GetHighPassFilterCutoff
    \/ GetAcceleration
    \/ CheckDeviceId
    \/ WriteBitsRead
    \/ WriteBitsWrite
    \/ AssignCache
    \/ AssignCacheFromField
    \/ ReadBitsLabel
    \/ ReadRawData

Spec == Init /\ [][Next]_vars

---------------------------------------------------------------------------
(* The bus transport may fail any transaction. The failed transaction has  *)
(* no effect on the device (a write is all or nothing) and raises; no      *)
(* method of the driver catches the exception.                             *)

\* a handler that tries to put the device back into active mode
on_error_restore_active(op) == <<SetField(_operation_mode, ACTIVE_MODE)>>

\* the statements a method runs when one of its bus transactions raises:
\* no method has an except or finally clause
on_error(op) == <<>>

\* the next step of the running method is a bus transaction
AtBusStep ==
    \/ pc = "write"
    \/ /\ pc = "run"
       /\ stmts # <<>>
       /\ Head(stmts).k \in {"check_id", "set", "cache_read", "get", "accel"}

TransportFails ==
    /\ AtBusStep
    /\ stmts' = on_error(call.op)
    /\ pc' = IF on_error(call.op) # <<>> THEN "run"
             ELSE IF call.op = "__init__" THEN "dead" ELSE "idle"
    /\ result' = Raised("TransportError")
    /\ latch' = 0
    /\ UNCHANGED <<regs, cached, call, bus, pre, probe, tasks, lock>>

NextFault ==
    \/ Next
    \/ TransportFails

SpecFault == Init /\ [][NextFault]_vars

---------------------------------------------------------------------------
(* Several tasks share one constructed handle. The driver takes no lock of *)
(* its own: each caller holds one lock around every method it calls. A     *)
(* task may be preempted between any two steps of its method.              *)

NumTasks == 2

Tasks == 1 .. NumTasks

\* the context of a task that is not inside a method
Out ==
    [pc |-> "out", stmts |-> <<>>, op |-> "none", value |-> 0, latch |-> 0, n |-> 0]

\* the values a setter accepts
Accepted(values) == {v \in Values : InTuple(v, values)}

\* the methods a task may call with an accepted argument, and their statements
Calls ==
    {[op |-> "operation_mode=", value |-> v, body |-> operation_mode_setter(v)] :
        v \in Accepted(operation_mode_values)}
    \cup {[op |-> "scale_range=", value |-> v, body |-> scale_range_setter(v)] :
        v \in Accepted(scale_range_values)}
    \cup {[op |-> "data_rate=", value |-> v, body |-> data_rate_setter(v)] :
        v \in Accepted(data_rate_values)}
    \cup {[op |-> "high_pass_filter=", value |-> v, body |-> high_pass_filter_setter(v)] :
        v \in Accepted(high_pass_filter_values)}
    \cup {[op |-> "high_pass_filter_cutoff=", value |-> v,
           body |-> high_pass_filter_cutoff_setter(v)] :
        v \in Accepted(high_pass_filter_cutoff_values)}
    \cup {[op |-> "operation_mode", value |-> 0, body |-> operation_mode_getter],
          [op |-> "scale_range", value |-> 0, body |-> scale_range_getter],
          [op |-> "data_rate", value |-> 0, body |-> data_rate_getter],
          [op |-> "high_pass_filter", value |-> 0, body |-> high_pass_filter_getter],
          [op |-> "high_pass_filter_cutoff", value |-> 0,
           body |-> high_pass_filter_cutoff_getter],
          [op |-> "acceleration", value |-> 0, body |-> acceleration_getter]}

\* a caller that takes no lock
MayEnter_unlocked(t) == TRUE

\* the caller can take the lock
MayEnter(t) == lock = {}

\* the handle after a successful construction, shared by idle tasks
InitLock ==
    /\ \E b \in InitBytes :
          /\ regs = (_REG_WHOAMI :> DeviceId) @@ (_XYZ_DATA_CFG :> b)
                    @@ (_CTRL_REG1 :> write_bits(_operation_mode, b, ACTIVE_MODE))
                    @@ (_HP_FILTER_CUTOFF :> b)
          /\ cached = read_bits(_scale_range, b)
    /\ pc = "shared"
    /\ stmts = <<>>
    /\ call = [op |-> "none", value |-> 0]
    /\ latch = 0
    /\ bus = <<>>
    /\ result = NoResult
    /\ pre = [regs |-> regs, cached |-> cached]
    /\ probe = <<>>
    /\ tasks = [t \in Tasks |-> Out]
    /\ lock = {}

\* take the lock and enter a method
TaskCall(t) ==
    /\ pc = "shared"
    /\ tasks[t].pc = "out"
    /\ MayEnter(t)
    /\ \E c \in Calls :
          tasks' = [tasks EXCEPT ![t] = [pc |-> "run", stmts |-> c.body, op |-> c.op,
                                        value |-> c.value, latch |-> 0, n |-> 0]]
    /\ lock' = {t}
    /\ UNCHANGED <<regs, cached, pc, stmts, call, latch, bus, result, pre, probe>>

TaskRunning(t, k) ==
    pc = "shared" /\ tasks[t].pc = "run" /\ Head(tasks[t].stmts).k = k

\* the task's context after the statement at the head of its list, which
\* took `txn` bus transactions; the method returns when none is left
TaskAfter(t, txn) ==
    IF Tail(tasks[t].stmts) = <<>>
    THEN Out
    ELSE [tasks[t] EXCEPT !.pc = "run", !.stmts = Tail(@), !.latch = 0, !.n = @ + txn]

\* the caller releases the lock when its method returns
LockAfter(t) == IF Tail(tasks[t].stmts) = <<>> THEN {} ELSE lock

TaskWriteBitsRead(t) ==
    /\ TaskRunning(t, "set")
    /\ LET f == Head(tasks[t].stmts).f
       IN  tasks' = [tasks EXCEPT ![t].pc = "write",
                                  ![t].latch = regs[f.register],
                                  ![t].n = @ + 1]
    /\ UNCHANGED <<regs, cached, pc, stmts, call, latch, bus, result, pre, probe, lock>>

TaskWriteBitsWrite(t) ==
    /\ pc = "shared"
    /\ tasks[t].pc = "write"
    /\ LET s == Head(tasks[t].stmts)
       IN  regs' = [regs EXCEPT ![s.f.register] = write_bits(s.f, tasks[t].latch, s.value)]
    /\ tasks' = [tasks EXCEPT ![t] = TaskAfter(t, 1)]
    /\ lock' = LockAfter(t)
    /\ UNCHANGED <<cached, pc, stmts, call, latch, bus, result, pre, probe>>

TaskAssignCache(t) ==
    /\ TaskRunning(t, "cache")
    /\ cached' = Head(tasks[t].stmts).value
    /\ tasks' = [tasks EXCEPT ![t] = TaskAfter(t, 0)]
    /\ lock' = LockAfter(t)
    /\ UNCHANGED <<regs, pc, stmts, call, latch, bus, result, pre, probe>>

TaskReadBitsLabel(t) ==
    /\ TaskRunning(t, "get")
    /\ tasks' = [tasks EXCEPT ![t] = TaskAfter(t, 1)]
    /\ lock' = LockAfter(t)
    /\ UNCHANGED <<regs, cached, pc, stmts, call, latch, bus, result, pre, probe>>

TaskReadRawData(t) ==
    /\ TaskRunning(t, "accel")
    /\ tasks' = [tasks EXCEPT ![t] = TaskAfter(t, 1)]
    /\ lock' = LockAfter(t)
    /\ UNCHANGED <<regs, cached, pc, stmts, call, latch, bus, result, pre, probe>>

NextLock ==
    \E t \in Tasks :
        \/ TaskCall(t)
        \/ TaskWriteBitsRead(t)
        \/ TaskWriteBitsWrite(t)
        \/ TaskAssignCache(t)
        \/ TaskReadBitsLabel(t)
        \/ TaskReadRawData(t)

SpecLock == InitLock /\ [][NextLock]_vars

---------------------------------------------------------------------------
(* Vocabulary of the properties: the register map and the code tables, as  *)
(* the specification states them.                                          *)

SetterOps ==
    {"operation_mode=", "scale_range=", "data_rate=", "high_pass_filter=",
     "high_pass_filter_cutoff="}

BracketedOps == SetterOps \ {"operation_mode="}

\* the canonical legal values of each property
LegalValues(op) ==
    CASE op = "operation_mode=" -> {0, 1}
      [] op = "scale_range=" -> {0, 1, 2}
      [] op = "data_rate=" -> 0 .. 7
      [] op = "high_pass_filter=" -> {0, 1}
      [] op = "high_pass_filter_cutoff=" -> 0 .. 3
      [] OTHER -> {}

\* register, width and offset of each bracketed property's field
TargetField(op) ==
    CASE op = "scale_range=" -> [reg |-> 14, w |-> 2, o |-> 0]
      [] op = "data_rate=" -> [reg |-> 42, w |-> 2, o |-> 4]
      [] op = "high_pass_filter=" -> [reg |-> 14, w |-> 1, o |-> 4]
      [] op = "high_pass_filter_cutoff=" -> [reg |-> 47, w |-> 2, o |-> 0]
      [] OTHER -> [reg |-> 0, w |-> 0, o |-> 0]

\* bit i of a byte
Bit(b, i) == (b \div (2 ^ i)) % 2

\* operation-mode bit of a control-register byte
ModeBit(byte) == byte % 2

\* `old` with the w bits at offset o replaced by the low w bits of v, bit by bit
FieldReplaced(w, o, old, v) ==
    LET bitAt(i) == IF i >= o /\ i < o + w THEN Bit(v, i - o) ELSE Bit(old, i)
    IN  bitAt(0) + 2 * bitAt(1) + 4 * bitAt(2) + 8 * bitAt(3)
        + 16 * bitAt(4) + 32 * bitAt(5) + 64 * bitAt(6) + 128 * bitAt(7)

\* the named setter has returned normally and nothing has run since
SetterReturned(op) == pc = "idle" /\ call.op = op /\ result.kind = "ok"

\* what the getter with statements `getter` would return in this state
Readback(getter) == getter_outcome(getter[1], regs[getter[1].f.register])

\* what it would have returned when the running (or last) method was called
ReadbackBefore(getter) == getter_outcome(getter[1], pre.regs[getter[1].f.register])

---------------------------------------------------------------------------
RangeLabel(r) ==
    CASE r = 0 -> "RANGE_2G" [] r = 1 -> "RANGE_4G" [] r = 2 -> "RANGE_8G" [] OTHER -> "?"

(* C1: when a set of scale_range to a legal code r has returned, the       *)
(* scale_range getter returns the label of r and the operation-mode bit    *)
(* (register 0x2A, bit 0) is 1.                                            *)
C1_ScaleRangeReadback ==
    SetterReturned("scale_range=") =>
        /\ call.value \in {0, 1, 2}
        /\ Readback(scale_range_getter) = ReturnedLabel(RangeLabel(call.value))
        /\ ModeBit(regs[42]) = 1

C1_Witness ==
    /\ SetterReturned("scale_range=")
    /\ call.value = 2
    /\ pre.regs[14] % 4 = 0
    /\ Readback(scale_range_getter) = ReturnedLabel("RANGE_8G")

---------------------------------------------------------------------------
(* C2: a set of any of the five properties with a value outside its legal  *)
(* values raises ValueError, issues no bus transaction and leaves the      *)
(* registers and the cached range as they were.                            *)

C2_InvalidRejected ==
    (call.op \in SetterOps /\ call.value \notin LegalValues(call.op)) =>
        /\ pc = "idle"
        /\ result = Raised("ValueError")
        /\ bus = <<>>
        /\ regs = pre.regs
        /\ cached = pre.cached

C2_Witness ==
    /\ call.op = "scale_range="
    /\ call.value = 3
    /\ result.kind = "ValueError"
    /\ pc = "idle"

---------------------------------------------------------------------------
(* C3: when the identity register holds anything but 0x1A, construction    *)
(* raises RuntimeError after the identity read alone: no register is       *)
(* written, no other transaction is issued, no handle comes to exist and   *)
(* no range is cached.                                                     *)

C3_WrongIdentity ==
    regs[13] # 26 =>
        /\ pc \in {"new", "run", "dead"}
        /\ cached \notin 0 .. 3
        /\ regs = pre.regs
        /\ \A i \in DOMAIN bus : bus[i] = BusRead(13, <<regs[13]>>)
        /\ Len(bus) <= 1
        /\ pc = "run" => bus = <<>>
        /\ pc = "dead" => (Len(bus) = 1 /\ result = Raised("RuntimeError"))

C3_Witness ==
    /\ pc = "dead"
    /\ regs[13] = 42
    /\ bus = <<BusRead(13, <<42>>)>>
    /\ result.kind = "RuntimeError"

---------------------------------------------------------------------------
RateLabel(d) ==
    CASE d = 0 -> "DATARATE_800HZ" [] d = 1 -> "DATARATE_400HZ"
      [] d = 2 -> "DATARATE_200HZ" [] d = 3 -> "DATARATE_100HZ"
      [] d = 4 -> "DATARATE_50HZ" [] d = 5 -> "DATARATE_12_5HZ"
      [] d = 6 -> "DATARATE_6_25HZ" [] d = 7 -> "DATARATE_1_56HZ"
      [] OTHER -> "?"

(* C4: when a set of data_rate to a legal code d in 0..7 has returned, the *)
(* data_rate getter returns the label at position d of the canonical       *)
(* sequence.                                                               *)
C4_DataRateReadback ==
    SetterReturned("data_rate=") =>
        Readback(data_rate_getter) = ReturnedLabel(RateLabel(call.value))

---------------------------------------------------------------------------
BracketSequence ==
    LET t == TargetField(call.op)
        c0 == pre.regs[42]
        c1 == c0 - (c0 % 2)
        t0 == IF t.reg = 42 THEN c1 ELSE pre.regs[t.reg]
        t1 == FieldReplaced(t.w, t.o, t0, call.value)
        c2 == IF t.reg = 42 THEN t1 ELSE c1
        c3 == c2 - (c2 % 2) + 1
    IN  <<BusRead(42, <<c0>>), BusWrite(42, <<c1>>),
          BusRead(t.reg, <<t0>>), BusWrite(t.reg, <<t1>>),
          BusRead(42, <<c2>>), BusWrite(42, <<c3>>)>>

(* C5: a successful set of a bracketed property issues exactly: read 0x2A, *)
(* write 0x2A with bit 0 cleared, read the target register, write it with  *)
(* the field replaced, read 0x2A, write 0x2A with bit 0 set; the target    *)
(* write is issued from a state whose operation-mode bit is 0.             *)
C5_BracketOrder ==
    (call.op \in BracketedOps /\ call.value \in LegalValues(call.op)) =>
        /\ Len(bus) <= 6
        /\ bus = SubSeq(BracketSequence, 1, Len(bus))
        /\ pc = "idle" <=> Len(bus) = 6
        /\ pc = "idle" => result.kind = "ok"
        /\ Len(bus) \in 2 .. 5 => ModeBit(regs[42]) = 0

C5_Witness ==
    /\ SetterReturned("high_pass_filter=")
    /\ call.value = 1
    /\ pre.regs[14] = 165
    /\ bus = <<BusRead(42, <<165>>), BusWrite(42, <<164>>),
               BusRead(14, <<165>>), BusWrite(14, <<181>>),
               BusRead(42, <<164>>), BusWrite(42, <<165>>)>>

---------------------------------------------------------------------------
GetterOf(op) ==
    CASE op = "scale_range=" -> scale_range_getter
      [] op = "data_rate=" -> data_rate_getter
      [] op = "high_pass_filter=" -> high_pass_filter_getter
      [] OTHER -> high_pass_filter_cutoff_getter

\* the code the property's field held when the method was called
CodeBefore(op) ==
    LET t == TargetField(op) IN (pre.regs[t.reg] \div (2 ^ t.o)) % (2 ^ t.w)

\* bit i of register r belongs to the field of the bracketed property op
InField(op, r, i) ==
    LET t == TargetField(op) IN r = t.reg /\ i >= t.o /\ i < t.o + t.w

\* the set has returned and its argument is the code the field already held
SameCodeSet(op) == SetterReturned(op) /\ call.value = CodeBefore(op)

\* the full bracket was issued; readback and cached range are as before
FullBracketSameReadback(op) ==
    /\ Len(bus) = 6
    /\ \A i \in 1 .. 6 : bus[i].op = (IF i % 2 = 1 THEN "read" ELSE "write")
    /\ \A i \in {1, 2, 5, 6} : bus[i].register = 42
    /\ \A i \in {3, 4} : bus[i].register = TargetField(op).reg
    /\ Readback(GetterOf(op)) = ReadbackBefore(GetterOf(op))
    /\ Readback(GetterOf(op)).kind = "label"
    /\ cached = pre.cached
    /\ ModeBit(regs[42]) = 1

(* C7, as claimed: setting a bracketed property to the code it reads back  *)
(* as issues the six transactions of the bracket and leaves the readback,  *)
(* the cached range and all register bits outside the property's field     *)
(* unchanged, with the device in active mode afterwards.                   *)
C7_AllOtherBitsUnchanged ==
    \A op \in BracketedOps :
        SameCodeSet(op) =>
            /\ FullBracketSameReadback(op)
            /\ \A r \in DOMAIN regs : \A i \in 0 .. 7 :
                  ~InField(op, r, i) => Bit(regs[r], i) = Bit(pre.regs[r], i)

(* C7, amended: setting a bracketed property to the code it reads back as  *)
(* issues the six transactions of the bracket and leaves the readback, the *)
(* cached range and every register bit other than the operation-mode bit   *)
(* unchanged; the operation-mode bit ends as 1 whatever it was before.     *)
C7_Idempotent ==
    \A op \in BracketedOps :
        SameCodeSet(op) =>
            /\ FullBracketSameReadback(op)
            /\ \A r \in DOMAIN regs : \A i \in 0 .. 7 :
                  ~(r = 42 /\ i = 0) => Bit(regs[r], i) = Bit(pre.regs[r], i)

C7_Witness ==
    /\ SetterReturned("high_pass_filter_cutoff=")
    /\ call.value = 2
    /\ pre.regs[47] = 90
    /\ ModeBit(pre.regs[42]) = 0
    /\ Len(bus) = 6
    /\ regs[47] = 90

---------------------------------------------------------------------------
Constructed == pc \in {"idle", "run", "write"} /\ ~(call.op = "__init__" /\ pc # "idle")

(* C8: once construction has completed, whenever the cached range differs  *)
(* from bits 1:0 of register 0x0E the operation-mode bit is 0 and a        *)
(* scale_range set is running; an acceleration read therefore decodes with *)
(* a cached range equal to the hardware's range field.                     *)
C8_CacheCoherent ==
    Constructed =>
        /\ cached # regs[14] % 4 =>
              (ModeBit(regs[42]) = 0 /\ call.op = "scale_range=" /\ pc # "idle")
        /\ call.op = "acceleration" => cached = regs[14] % 4
        /\ (call.op = "acceleration" /\ result.kind = "accel") =>
              \A a \in 1 .. 3 :
                  result.accel[a].divisor =
                      (CASE regs[14] % 4 = 0 -> 4096 [] regs[14] % 4 = 1 -> 2048
                         [] regs[14] % 4 = 2 -> 1024 [] OTHER -> 0)

C8_Witness ==
    /\ Constructed
    /\ call.op = "scale_range="
    /\ cached = 0
    /\ regs[14] % 4 = 1
    /\ ModeBit(regs[42]) = 0
    /\ Len(bus) = 4

---------------------------------------------------------------------------
ConstructionSequence ==
    <<BusRead(13, <<26>>),
      BusRead(42, <<pre.regs[42]>>),
      BusWrite(42, <<pre.regs[42] - (pre.regs[42] % 2) + 1>>),
      BusRead(14, <<pre.regs[14]>>)>>

(* C9: construction against identity 0x1A issues, in this order, the       *)
(* identity read, the read and the write of 0x2A that set bit 0, and the   *)
(* read of 0x0E; it changes nothing but bit 0 of 0x2A, which ends as 1,    *)
(* and caches bits 1:0 of the byte read from 0x0E.                         *)
C9_Construction ==
    (call.op = "__init__" /\ pre.regs[13] = 26) =>
        /\ Len(bus) <= 4
        /\ bus = SubSeq(ConstructionSequence, 1, Len(bus))
        /\ Len(bus) < 4 => cached \notin 0 .. 3
        /\ pc = "idle" <=> Len(bus) = 4
        /\ pc = "idle" =>
              /\ result.kind = "ok"
              /\ ModeBit(regs[42]) = 1
              /\ regs[42] = pre.regs[42] - (pre.regs[42] % 2) + 1
              /\ \A r \in {13, 14, 47} : regs[r] = pre.regs[r]
              /\ cached = pre.regs[14] % 4

C9_Witness ==
    /\ pc = "idle"
    /\ call.op = "__init__"
    /\ pre.regs[42] = 90
    /\ regs[42] = 91
    /\ cached = 2
    /\ Len(bus) = 4

---------------------------------------------------------------------------
(* write_bits in isolation: every field that fits a byte, every old byte,  *)
(* values up to MaxBitsValue.                                              *)

ProbeIdle ==
    /\ regs = (_REG_WHOAMI :> DeviceId) @@ (_XYZ_DATA_CFG :> 0)
              @@ (_CTRL_REG1 :> 0) @@ (_HP_FILTER_CUTOFF :> 0)
    /\ cached = NoCache
    /\ pc = "probe"
    /\ stmts = <<>>
    /\ call = [op |-> "none", value |-> 0]
    /\ latch = 0
    /\ bus = <<>>
    /\ result = NoResult
    /\ pre = [regs |-> regs, cached |-> cached]
    /\ tasks = <<>>
    /\ lock = {}

BitsFields ==
    { [num_bits |-> w, register |-> _CTRL_REG1, start_bit |-> o] :
        <<w, o>> \in { x \in (1 .. 8) \X (0 .. 7) : x[1] + x[2] <= 8 } }

InitBits ==
    /\ ProbeIdle
    /\ probe \in [fn : {"write_bits"}, f : BitsFields, byte : Bytes,
                  value : 0 .. MaxBitsValue, out : {<<>>}]

ApplyWriteBits ==
    /\ pc = "probe"
    /\ probe.fn = "write_bits"
    /\ probe.out = <<>>
    /\ probe' = [probe EXCEPT !.out = <<write_bits(probe.f, probe.byte, probe.value)>>]
    /\ UNCHANGED <<regs, cached, pc, stmts, call, latch, bus, result, pre, tasks, lock>>

SpecBits == InitBits /\ [][ApplyWriteBits]_vars

(* C6: write_bits on a field of width w at offset o, w + o <= 8, writes    *)
(* back (old & ~mask) | ((value & ((1 << w) - 1)) << o): the bits outside  *)
(* the field keep their old value and the field holds the low w bits of    *)
(* the value; width 2, offset 4, value 3 on 0b00000001 gives 0b00110001.   *)

C6_WriteBitsMasks ==
    probe.out # <<>> =>
        LET w == probe.f.num_bits
            o == probe.f.start_bit
            old == probe.byte
            v == probe.value
            new == probe.out[1]
        IN  /\ new \in 0 .. 255
            /\ new = FieldReplaced(w, o, old, v)
            /\ \A i \in 0 .. 7 : (i < o \/ i >= o + w) => Bit(new, i) = Bit(old, i)
            /\ (new \div (2 ^ o)) % (2 ^ w) = v % (2 ^ w)
            /\ (w = 2 /\ o = 4 /\ old = 1 /\ v = 3) => new = 49

C6_Witness ==
    /\ probe.out = <<49>>
    /\ probe.f.num_bits = 2
    /\ probe.f.start_bit = 4
    /\ probe.byte = 1
    /\ probe.value = 7

---------------------------------------------------------------------------
(* The acceleration conversion in isolation: every high byte with sampled  *)
(* low bytes on each axis in turn, every cached range, and a range         *)
(* register that may hold another code than the cache.                     *)

LowBytes == {0, 1, 2, 3, 4, 128, 252, 255}

RawInputs ==
    UNION { { <<hi, lo, 8, 0, 252, 0>>, <<16, 0, hi, lo, 252, 0>>, <<16, 0, 8, 0, hi, lo>> } :
              <<hi, lo>> \in Bytes \X LowBytes }

InitDecode ==
    /\ ProbeIdle
    /\ probe \in [fn : {"acceleration"}, raw : RawInputs, cached : 0 .. 3,
                  cfg : {0, 90}, out : {<<>>}]

ApplyAcceleration ==
    /\ pc = "probe"
    /\ probe.fn = "acceleration"
    /\ probe.out = <<>>
    /\ probe' = [probe EXCEPT
                   !.out = <<acceleration(probe.raw, divisor_key(probe.cached, probe.cfg))>>]
    /\ UNCHANGED <<regs, cached, pc, stmts, call, latch, bus, result, pre, tasks, lock>>

SpecDecode == InitDecode /\ [][ApplyAcceleration]_vars

SignedWord(hi, lo) == ((hi * 256 + lo + 32768) % 65536) - 32768

(* C10: each axis of an acceleration read is floor(word / 4) of its signed *)
(* big-endian 16-bit word, within -8192..8191, over the divisor of the     *)
(* cached range (2g 4096, 4g 2048, 8g 1024), times 9.80665; raw bytes      *)
(* 10 00 08 00 FC 00 with cached range 2g give counts 1024, 512, -256 over *)
(* 4096.                                                                   *)
C10_Decoding ==
    (probe.out # <<>> /\ probe.cached \in {0, 1, 2}) =>
        LET r == probe.out[1]
            d == CASE probe.cached = 0 -> 4096 [] probe.cached = 1 -> 2048 [] OTHER -> 1024
        IN  /\ r.kind = "accel"
            /\ Len(r.accel) = 3
            /\ \A a \in 1 .. 3 :
                  LET word == SignedWord(probe.raw[2 * a - 1], probe.raw[2 * a])
                      e == r.accel[a]
                  IN  /\ 4 * e.count <= word
                      /\ word < 4 * e.count + 4
                      /\ e.count \in -8192 .. 8191
                      /\ e.divisor = d
                      /\ e.gravity = <<980665, 100000>>
            /\ (probe.raw = <<16, 0, 8, 0, 252, 0>> /\ probe.cached = 0) =>
                  /\ <<r.accel[1].count, r.accel[2].count, r.accel[3].count>> = <<1024, 512, -256>>
                  /\ r.accel[1].divisor = 4096

C10_Witness ==
    /\ probe.out # <<>>
    /\ probe.raw = <<16, 0, 8, 0, 252, 0>>
    /\ probe.cached = 0
    /\ probe.cfg = 90
    /\ probe.out[1].kind = "accel"
    /\ probe.out[1].accel[3].count = -256

---------------------------------------------------------------------------
(* The driver on a device whose range field holds a legal code when the    *)
(* driver first meets it.                                                  *)

InitLegalRange ==
    /\ Init
    /\ regs[14] % 4 \in {0, 1, 2}

SpecLegalRange == InitLegalRange /\ [][Next]_vars

GetterOps ==
    {"operation_mode", "scale_range", "data_rate", "high_pass_filter",
     "high_pass_filter_cutoff"}

\* the code each property's field holds, by the register map
StoredCode(op) ==
    CASE op = "operation_mode" -> regs[42] % 2
      [] op = "scale_range" -> regs[14] % 4
      [] op = "data_rate" -> (regs[42] \div 16) % 4
      [] op = "high_pass_filter" -> (regs[14] \div 16) % 2
      [] OTHER -> regs[47] % 4

\* the number of labels each getter can return
LabelCount(op) ==
    CASE op = "operation_mode" -> 2
      [] op = "scale_range" -> 3
      [] op = "data_rate" -> 8
      [] op = "high_pass_filter" -> 2
      [] OTHER -> 4

(* C13: when the range field of 0x0E holds a legal code as construction    *)
(* reads it and only the driver writes the device, every field's stored    *)
(* code indexes its getter's label table, the range field never holds 3,   *)
(* the cached range of a constructed handle is a key of the divisor table, *)
(* and no getter or acceleration read fails on a lookup.                   *)
C13_CodesStayLegal ==
    /\ \A op \in GetterOps : StoredCode(op) \in 0 .. LabelCount(op) - 1
    /\ regs[14] % 4 # 3
    /\ Constructed => cached \in {0, 1, 2}
    /\ result.kind \notin {"IndexError", "KeyError"}
    /\ (pc = "idle" /\ call.op \in GetterOps) => result.kind = "label"
    /\ (pc = "idle" /\ call.op = "acceleration") => result.kind = "accel"

C13_Witness ==
    /\ pc = "idle"
    /\ call.op = "scale_range"
    /\ result = ReturnedLabel("RANGE_8G")
    /\ regs[14] = 166
    /\ cached = 2

---------------------------------------------------------------------------
(* C14: a set of a bracketed property to a legal value changes no register *)
(* bit other than the bits of that property's field and the operation-mode *)
(* bit, at any point of the call; the readback of each of the other three  *)
(* bracketed properties is the same after the call as before it.           *)
C14_OnlyOwnFieldAndMode ==
    \A op \in BracketedOps :
        (call.op = op /\ call.value \in LegalValues(op)) =>
            /\ \A r \in DOMAIN regs : \A i \in 0 .. 7 :
                  (~InField(op, r, i) /\ ~(r = 42 /\ i = 0)) =>
                      Bit(regs[r], i) = Bit(pre.regs[r], i)
            /\ SetterReturned(op) =>
                  \A other \in BracketedOps \ {op} :
                      Readback(GetterOf(other)) = ReadbackBefore(GetterOf(other))

C14_Witness ==
    /\ SetterReturned("data_rate=")
    /\ call.value = 1
    /\ pre.regs[42] = 165
    /\ regs[42] = 149
    /\ regs[14] = 165

---------------------------------------------------------------------------
(* C15: a set of operation_mode to a legal value v issues exactly one read *)
(* and one write of 0x2A and no bracket; afterwards bit 0 of 0x2A is v,    *)
(* the getter returns the label of v, and every other bit of 0x2A, every   *)
(* other register and the cached range are unchanged.                      *)
C15_ModeSetDirect ==
    (call.op = "operation_mode=" /\ call.value \in {0, 1}) =>
        LET old == pre.regs[42]
            new == old - (old % 2) + call.value
            expected == <<BusRead(42, <<old>>), BusWrite(42, <<new>>)>>
        IN  /\ Len(bus) <= 2
            /\ bus = SubSeq(expected, 1, Len(bus))
            /\ pc = "idle" <=> Len(bus) = 2
            /\ \A r \in {13, 14, 47} : regs[r] = pre.regs[r]
            /\ cached = pre.cached
            /\ pc = "idle" =>
                  /\ result.kind = "ok"
                  /\ regs[42] = new
                  /\ Readback(operation_mode_getter) =
                        ReturnedLabel(IF call.value = 0 THEN "STANDBY_MODE" ELSE "ACTIVE_MODE")
                  /\ Readback(data_rate_getter) = ReadbackBefore(data_rate_getter)

C15_Witness ==
    /\ SetterReturned("operation_mode=")
    /\ call.value = 0
    /\ pre.regs[42] = 91
    /\ regs[42] = 90
    /\ bus = <<BusRead(42, <<91>>), BusWrite(42, <<90>>)>>

---------------------------------------------------------------------------
\* the register each getter reads, by the register map
GetterRegister(op) ==
    CASE op = "operation_mode" -> 42
      [] op = "scale_range" -> 14
      [] op = "data_rate" -> 42
      [] op = "high_pass_filter" -> 14
      [] op = "high_pass_filter_cutoff" -> 47
      [] OTHER -> 1

(* C16: every getter issues exactly one bus read, of one byte of its       *)
(* field's register, and the acceleration read exactly one read of six     *)
(* bytes at 0x01; none issues a write, and the registers and the cached    *)
(* range are as they were when it was called.                              *)
C16_ReadsOnly ==
    (call.op \in GetterOps \cup {"acceleration"}) =>
        /\ regs = pre.regs
        /\ cached = pre.cached
        /\ pc # "idle" => bus = <<>>
        /\ pc = "idle" =>
              /\ Len(bus) = 1
              /\ bus[1].op = "read"
              /\ bus[1].register = GetterRegister(call.op)
              /\ Len(bus[1].data) = (IF call.op = "acceleration" THEN 6 ELSE 1)
              /\ call.op # "acceleration" => bus[1].data = <<regs[GetterRegister(call.op)]>>

C16_Witness ==
    /\ pc = "idle"
    /\ call.op = "acceleration"
    /\ bus = <<BusRead(1, <<16, 0, 8, 0, 252, 0>>)>>
    /\ result.kind = "accel"

---------------------------------------------------------------------------
\* the last method left the operation mode alone: a getter, an acceleration
\* read, or a setter that rejected its argument
ModeUntouched ==
    \/ call.op \in GetterOps \cup {"acceleration"}
    \/ call.op \in SetterOps /\ result.kind = "ValueError"

(* C18: a bracketed setter that has returned leaves the operation-mode bit *)
(* at 1 even when it was 0 at the call; and whenever no method runs and    *)
(* the bit is 0, the last method either was operation_mode set to standby  *)
(* or left the mode alone and was itself called in standby - so standby    *)
(* always goes back to an explicit operation_mode set to standby.          *)
C18_ModeNotRestored ==
    /\ \A op \in BracketedOps : SetterReturned(op) => ModeBit(regs[42]) = 1
    /\ (pc = "idle" /\ ModeBit(regs[42]) = 0) =>
          \/ SetterReturned("operation_mode=") /\ call.value = 0
          \/ ModeUntouched /\ ModeBit(pre.regs[42]) = 0

C18_Witness ==
    /\ SetterReturned("scale_range=")
    /\ ModeBit(pre.regs[42]) = 0
    /\ ModeBit(regs[42]) = 1

---------------------------------------------------------------------------
\* the running (or last) method was stopped by a transport failure
TransportRaised == result = Raised("TransportError")

\* the operation-mode bit goes from 0 to 1 in this step
ModeBitRises == ModeBit(regs[42]) = 0 /\ ModeBit(regs'[42]) = 1

(* C11: when the transport fails the read or the write of the target field *)
(* of a bracketed set, after the standby write went through, the error is  *)
(* what the call raises, the call ends there with no further transaction   *)
(* (no retry, no write of active) and the operation-mode bit is 0; the bit *)
(* goes back to 1 only by a later bus write of 0x2A.                       *)
C11_FailureLeavesStandby ==
    /\ [](TransportRaised => (pc \in {"idle", "dead"} /\ stmts = <<>>))
    /\ [](\A op \in BracketedOps :
             (call.op = op /\ TransportRaised /\ Len(bus) \in {2, 3}) =>
                 /\ pc = "idle"
                 /\ bus = SubSeq(BracketSequence, 1, Len(bus))
                 /\ ModeBit(regs[42]) = 0)
    /\ [][ModeBitRises =>
             /\ call' = call
             /\ bus' = Append(bus, BusWrite(42, <<regs'[42]>>))]_vars

C11_Witness ==
    /\ pc = "idle"
    /\ call.op = "data_rate="
    /\ TransportRaised
    /\ Len(bus) = 3
    /\ ModeBit(pre.regs[42]) = 1
    /\ ModeBit(regs[42]) = 0

---------------------------------------------------------------------------
(* C17: with any bus transaction liable to fail, the cached range equals   *)
(* the range field of 0x0E whenever no method runs on a constructed        *)
(* handle; a set of scale_range stopped before its field write went        *)
(* through leaves field and cache at their old value, one stopped at the   *)
(* final read or write of 0x2A leaves both at the new value.               *)
C17_CacheCoherentUnderFailure ==
    /\ pc = "idle" => cached = regs[14] % 4
    /\ (pc = "idle" /\ call.op = "scale_range=" /\ TransportRaised) =>
          /\ Len(bus) <= 5
          /\ Len(bus) <= 3 =>
                (regs[14] = pre.regs[14] /\ cached = pre.cached)
          /\ Len(bus) >= 4 =>
                (regs[14] % 4 = call.value /\ cached = call.value)

C17_Witness ==
    /\ pc = "idle"
    /\ call.op = "scale_range="
    /\ TransportRaised
    /\ Len(bus) = 5
    /\ pre.cached = 0
    /\ cached = 2
    /\ regs[14] % 4 = 2

---------------------------------------------------------------------------
\* task t has completed the standby write of a bracketed set and not yet
\* its active write
InBracket(t) == tasks[t].op \in BracketedOps /\ tasks[t].n \in 2 .. 5

\* task u issues the bus read of a getter or of an acceleration read
ReadsNow(u) ==
    /\ tasks[u].op \in GetterOps \cup {"acceleration"}
    /\ tasks[u].pc = "run"
    /\ tasks'[u].pc = "out"

\* task u issues the write of a read-modify-write
WritesNow(u) == tasks[u].pc = "write" /\ tasks'[u].pc # "write"

\* the field that write is for: the operation mode at the first and the
\* last write of a bracket and in a mode set, the target field otherwise
WrittenField(u) ==
    IF tasks[u].op = "operation_mode=" \/ tasks[u].n \in {1, 5}
    THEN [reg |-> 42, w |-> 1, o |-> 0]
    ELSE TargetField(tasks[u].op)

(* C12: with every method called under one lock, no task issues the bus    *)
(* read of a getter or of an acceleration read while another task is       *)
(* between the standby write and the active write of a bracketed set, and  *)
(* every write of a read-modify-write changes, in the registers as they    *)
(* are at that moment, only the bits of the writer's own field, so that no *)
(* field another task has written is put back to an older value.           *)
C12_SerializedByLock ==
    [][/\ \A u \in Tasks :
             ReadsNow(u) => \A t \in Tasks \ {u} : ~InBracket(t)
       /\ \A u \in Tasks :
             WritesNow(u) =>
                 \A r \in DOMAIN regs : \A i \in 0 .. 7 :
                     ~(r = WrittenField(u).reg
                       /\ i >= WrittenField(u).o
                       /\ i < WrittenField(u).o + WrittenField(u).w) =>
                         Bit(regs'[r], i) = Bit(regs[r], i)]_vars

C12_Witness ==
    /\ pc = "shared"
    /\ lock = {1}
    /\ tasks[1].op = "scale_range="
    /\ tasks[1].pc = "write"
    /\ tasks[1].n = 3
    /\ tasks[1].latch = 74
    /\ regs[14] = 74
    /\ tasks[2] = Out

====
